---- MODULE Spec2Model ----
(***************************************************************************)
(* Invoice lifecycle of the procurement system: the Express gateway        *)
(* (POST /api/invoices, POST /api/invoices/:id/submit,                     *)
(* POST /api/payments/process, GET /api/dashboard) and the payment         *)
(* service (PaymentController.validatePayment / processPayment,            *)
(* PaymentRepository.save / logAudit) over the shared store and cache.     *)
(* Every await of a handler is a step of its own, so that handlers of      *)
(* concurrent requests interleave as they do on the event loop.            *)
(***************************************************************************)
EXTENDS Integers, Sequences, FiniteSets, Bags, TLC

\* ---------------------------------------------------------------- bounds
MaxInvoices == 2
MaxRequests == 2
MaxInflight == 2

InvoiceIds == 1..MaxInvoices

\* request amounts: one outside and one inside the range validatePayment accepts
Amounts == {0, 1500}

\* request descriptions: the simulator's `SIM-${randomDescription()}` and a
\* description typed by a user
Descriptions == {"SIM", "office"}

\* ------------------------------------------------------ program constants
AmountLimit == 1000000
BudgetLimit == 500000

\* invoices, payments, audit_logs: the tables of the store; cache: whether the
\* key dashboard_metrics is present; now: the store's clock; reqs: the handlers
\* in flight, each with its locals (a bag: handlers have no identity beyond
\* their locals); nreq: requests accepted so far; last: the request answered by
\* the step just taken, with its response; documents: the documents table;
\* snapshot: what the key dashboard_metrics holds and when it expires (read
\* only while the key is present); sim: the traffic simulator's process
VARIABLES invoices, payments, audit_logs, cache, now, reqs, nreq, last,
          documents, sim, snapshot

vars == <<invoices, payments, audit_logs, cache, now, reqs, nreq, last,
          documents, sim, snapshot>>

\* ------------------------------------------------------------------ store
NoTime == 0

\* a row of the invoices table that has not been inserted yet
NoInvoice == [status |-> "none", amount |-> 0, invoice_number |-> <<>>,
              description |-> "none",
              created_at |-> NoTime,
              submitted_at |-> NoTime, approved_at |-> NoTime]

\* String(n): the decimal digits of a non-negative integer
RECURSIVE Digits(_)
Digits(n) == IF n < 10 THEN <<n>> ELSE Append(Digits(n \div 10), n % 10)

\* str.slice(-6): the last six characters, or all of them if there are fewer
SliceLast6(str) == IF Len(str) <= 6 THEN str ELSE SubSeq(str, Len(str) - 5, Len(str))

MsPerDay == 86400000
DaysPerYear == 365
Epoch == 1970

\* new Date(ms).getFullYear(), for clocks within the first years after the
\* epoch (no leap day before 1972-02-29)
getFullYear(ms) == Epoch + (ms \div MsPerDay) \div DaysPerYear

\* `INV-${new Date().getFullYear()}-${String(Date.now()).slice(-6)}`
invoiceNumber(ms) == <<"INV", getFullYear(ms)>> \o SliceLast6(Digits(ms))

\* status column default of a freshly inserted invoice
DefaultStatus == "draft"

NoValidation == [valid |-> FALSE, warning |-> "unset"]

NoPayResp == [success |-> FALSE, status |-> "none", payment_id |-> 0,
              confirmation_number |-> "null"]

NoResp == [code |-> 0, kind |-> "none", success |-> FALSE,
           documentValidation |-> NoValidation,
           paymentValidation |-> NoValidation]

\* docCall / payCall: how the axios call to each authority ended
\* ("none" before it is made, "answered", or "failed" when it threw)
\* results of the cleanup handler: rows deleted so far
NoResults == [invoices |-> 0, payments |-> 0, documents |-> 0]

IdleReq == [op |-> "idle", pc |-> "idle", id |-> 0, invoice |-> NoInvoice,
            maxAgeHours |-> 0, results |-> NoResults, dashboard |-> NoTime,
            docCall |-> "none", payCall |-> "none",
            documentValidation |-> NoValidation,
            paymentValidation |-> NoValidation,
            payResp |-> NoPayResp, resp |-> NoResp]

Running == BagToSet(reqs)

\* the key dashboard_metrics before anything was stored under it
NoSnapshot == [generatedAt |-> NoTime, expires |-> NoTime]

\* the simulator process before it is started: its config, the loop counter,
\* how often each periodic part of a cycle has run, and how the process ended
NoSim == [phase |-> "off", maxCycles |-> 0, cycleCount |-> 0,
          enableInvoices |-> FALSE, invoiceFrequency |-> 1,
          enableUploads |-> FALSE, uploadFrequency |-> 1,
          cleanupFrequency |-> 1,
          invoices |-> 0, uploads |-> 0, cleanups |-> 0,
          errors |-> 0, finalCleanup |-> FALSE, browser |-> "none", exit |-> -1]

\* mutant of Exists: every id of the id space counts as an existing invoice
ExistsAny(id) == id \in InvoiceIds

\* SELECT * FROM invoices WHERE id = $1 returns a row (a deleted row keeps
\* its id reserved: the serial column never hands it out again)
Exists(id) == id \in InvoiceIds /\ invoices[id].status \notin {"none", "deleted"}

\* ids are handed out by the serial column: the next unused one
NextId == Cardinality({i \in InvoiceIds : invoices[i].status # "none"}) + 1

AuditEntry(type, id, action, details) ==
  [entity_type |-> type, entity_id |-> id, action |-> action, details |-> details]

\* the invoices table when the server starts: empty, or holding the draft
\* invoice that a POST /api/invoices of an earlier run has left, audited
SeededInvoice(amount) ==
  [NoInvoice EXCEPT !.status = DefaultStatus, !.amount = amount,
                    !.description = "office",
                    !.invoice_number = invoiceNumber(1), !.created_at = 1]

Init ==
  /\ \/ /\ invoices = [i \in InvoiceIds |-> NoInvoice]
        /\ audit_logs = <<>>
        /\ now = 1
     \/ /\ \E a \in Amounts :
             invoices = [i \in InvoiceIds |->
                           IF i = 1 THEN SeededInvoice(a) ELSE NoInvoice]
        /\ audit_logs = <<AuditEntry("invoice", 1, "created",
                                   [invoice_number |-> invoiceNumber(1)])>>
        /\ now = 2
  /\ payments = <<>>
  /\ cache = FALSE
  /\ reqs = EmptyBag
  /\ nreq = 0
  /\ last = IdleReq
  /\ documents = <<>>
  /\ sim = NoSim
  /\ snapshot = NoSnapshot

\* a request is accepted and its handler runs up to its first query
Start(r) == reqs' = reqs (+) SetToBag({r}) /\ last' = IdleReq

\* the handler with locals r goes on with locals r2
Set(r, r2) == reqs' = (reqs (-) SetToBag({r})) (+) SetToBag({r2}) /\ last' = IdleReq

\* the handler with locals r sends resp and returns
Respond(r, resp) ==
  /\ reqs' = reqs (-) SetToBag({r})
  /\ last' = [r EXCEPT !.pc = "done", !.resp = resp]

\* a request that is answered by its first step
Reject(r, resp) ==
  /\ reqs' = reqs
  /\ last' = [r EXCEPT !.pc = "done", !.resp = resp]

ErrorResp(code) == [NoResp EXCEPT !.code = code, !.kind = "error"]

CanStart == BagCardinality(reqs) < MaxInflight /\ nreq < MaxRequests

\* ------------------------------------------------------- GET /api/dashboard
\* a request that misses the cache: the aggregate is computed and stored under
\* dashboard_metrics (a hit returns the stored snapshot and changes nothing)
Dashboard ==
  /\ nreq < MaxRequests
  /\ cache = FALSE
  /\ cache' = TRUE
  /\ nreq' = nreq + 1
  /\ UNCHANGED <<documents, sim, snapshot, invoices, payments, audit_logs, now, reqs>>
  /\ last' = IdleReq

\* redis drops the key when its expiry (setEx ... 30) is reached
Expire ==
  /\ cache = TRUE
  /\ cache' = FALSE
  /\ UNCHANGED <<documents, sim, snapshot, invoices, payments, audit_logs, now, reqs, nreq>>
  /\ last' = IdleReq

\* ------------------------------------------------------- POST /api/invoices
\* INSERT INTO invoices ... RETURNING *
CreateInsert(amount, description) ==
  /\ CanStart
  /\ NextId \in InvoiceIds
  /\ invoices' = [invoices EXCEPT ![NextId] =
                    [NoInvoice EXCEPT !.status = DefaultStatus, !.amount = amount,
                                      !.description = description,
                                      !.invoice_number = invoiceNumber(now),
                                      !.created_at = now]]
  /\ now' = now + 1
  /\ nreq' = nreq + 1
  /\ Start([IdleReq EXCEPT !.op = "create", !.pc = "del", !.id = NextId,
                           !.invoice = invoices'[NextId]])
  /\ UNCHANGED <<documents, sim, snapshot, payments, audit_logs, cache>>

\* mutant of CreateDel: deleting a key that is not there is treated as an error
CreateDelStrict(r) ==
  /\ r.op = "create" /\ r.pc = "del"
  /\ cache' = FALSE
  /\ IF cache THEN Set(r, [r EXCEPT !.pc = "audit"]) ELSE Respond(r, ErrorResp(500))
  /\ UNCHANGED <<documents, sim, snapshot, invoices, payments, audit_logs, now, nreq>>

CreateDel(r) ==
  /\ r.op = "create" /\ r.pc = "del"
  /\ cache' = FALSE
  /\ Set(r, [r EXCEPT !.pc = "audit"])
  /\ UNCHANGED <<documents, sim, snapshot, invoices, payments, audit_logs, now, nreq>>

CreateAudit(r) ==
  /\ r.op = "create" /\ r.pc = "audit"
  /\ audit_logs' = Append(audit_logs,
       AuditEntry("invoice", r.id, "created",
                  [invoice_number |-> r.invoice.invoice_number]))
  /\ Respond(r, [NoResp EXCEPT !.code = 201, !.kind = "invoice"])
  /\ UNCHANGED <<documents, sim, snapshot, invoices, payments, cache, now, nreq>>

\* ------------------------------------------- POST /api/invoices/:id/submit
SubmitSelect(id) ==
  /\ CanStart
  /\ nreq' = nreq + 1
  /\ IF Exists(id)
     THEN Start([IdleReq EXCEPT !.op = "submit", !.pc = "doc", !.id = id,
                                !.invoice = invoices[id]])
     ELSE Reject([IdleReq EXCEPT !.op = "submit", !.id = id], ErrorResp(404))
  /\ UNCHANGED <<documents, sim, snapshot, invoices, payments, audit_logs, cache, now>>

\* answers of the Document Authority's POST /documents/validate
DocumentAnswers == {[valid |-> TRUE, warning |-> "none"],
                    [valid |-> FALSE, warning |-> "none"]}

\* mutant of DocumentFallback: the failed call is recorded as not valid
DocumentFallbackInvalid == [valid |-> FALSE, warning |-> "Document service unavailable"]

\* catch (docError): what the handler records when the call throws
DocumentFallback == [valid |-> TRUE, warning |-> "Document service unavailable"]

\* catch (payError)
PaymentFallback == [valid |-> TRUE, warning |-> "Payment service unavailable"]

\* mutant of SubmitDoc: the call has no timeout, the handler goes on only when
\* the Document Authority answers
SubmitDocNoDeadline(r, failed, answer) ==
  /\ ~failed
  /\ r.op = "submit" /\ r.pc = "doc"
  /\ Set(r, [r EXCEPT !.pc = "pay", !.docCall = "answered",
                      !.documentValidation = answer])
  /\ UNCHANGED <<documents, sim, snapshot, invoices, payments, audit_logs, cache, now, nreq>>

\* mutant of SubmitDoc: the handler goes on to the status update without
\* waiting for the payment check
SubmitDocUnjoined(r, failed, answer) ==
  /\ r.op = "submit" /\ r.pc = "doc"
  /\ Set(r, [r EXCEPT !.pc = "update",
                      !.docCall = IF failed THEN "failed" ELSE "answered",
                      !.documentValidation = IF failed THEN DocumentFallback ELSE answer])
  /\ UNCHANGED <<documents, sim, snapshot, invoices, payments, audit_logs, cache, now, nreq>>

SubmitDoc(r, failed, answer) ==
  /\ r.op = "submit" /\ r.pc = "doc"
  /\ Set(r, [r EXCEPT !.pc = "pay",
                      !.docCall = IF failed THEN "failed" ELSE "answered",
                      !.documentValidation = IF failed THEN DocumentFallback ELSE answer])
  /\ UNCHANGED <<documents, sim, snapshot, invoices, payments, audit_logs, cache, now, nreq>>

\* PaymentRepository.findByInvoiceId: the most recent payment row of the invoice
PaymentsOf(id) == SelectSeq(payments, LAMBDA p : p.invoice_id = id)

findByInvoiceId(id) ==
  IF PaymentsOf(id) = <<>> THEN <<>> ELSE <<PaymentsOf(id)[Len(PaymentsOf(id))]>>

\* PaymentController.validatePayment
amountValid(amount) == amount > 0 /\ amount <= AmountLimit

noDuplicate(id) ==
  findByInvoiceId(id) = <<>> \/ findByInvoiceId(id)[1].status # "completed"

\* budget compliance is simulated: a large amount passes on a coin flip
budgetCompliant(amount, coin) == amount <= BudgetLimit \/ coin

issues(id, amount, coin) ==
  {i \in {[type |-> "error", check |-> "amount_range"],
          [type |-> "error", check |-> "no_duplicate"],
          [type |-> "warning", check |-> "budget_compliance"]} :
     \/ i.check = "amount_range" /\ ~amountValid(amount)
     \/ i.check = "no_duplicate" /\ ~noDuplicate(id)
     \/ i.check = "budget_compliance" /\ ~budgetCompliant(amount, coin)}

isValid(found) == \A i \in found : i.type # "error"

validatePayment(id, amount, coin) ==
  [valid |-> isValid(issues(id, amount, coin)),
   warning |-> IF \E i \in issues(id, amount, coin) : i.type = "warning"
               THEN "budget_compliance" ELSE "none"]

\* mutant of SubmitPay: a failed call is sent again
SubmitPayRetrying(r, failed) ==
  /\ r.op = "submit" /\ r.pc = "pay"
  /\ \E coin \in BOOLEAN :
       Set(r, [r EXCEPT !.pc = IF failed THEN "pay" ELSE "update",
                       !.payCall = IF failed THEN "failed" ELSE "answered",
                       !.paymentValidation =
                          IF failed THEN PaymentFallback
                          ELSE validatePayment(r.id, r.invoice.amount, coin)])
  /\ UNCHANGED <<documents, sim, snapshot, invoices, payments, audit_logs, cache, now, nreq>>

\* mutant of SubmitPay: the validation is written to the audit log
SubmitPayRecording(r, failed) ==
  /\ r.op = "submit" /\ r.pc = "pay"
  /\ \E coin \in BOOLEAN :
       /\ audit_logs' = Append(audit_logs,
            AuditEntry("payment", r.id, "validated",
                       validatePayment(r.id, r.invoice.amount, coin)))
       /\ Set(r, [r EXCEPT !.pc = "update",
                           !.payCall = IF failed THEN "failed" ELSE "answered",
                           !.paymentValidation =
                              IF failed THEN PaymentFallback
                              ELSE validatePayment(r.id, r.invoice.amount, coin)])
  /\ UNCHANGED <<documents, sim, snapshot, invoices, payments, cache, now, nreq>>

SubmitPay(r, failed) ==
  /\ r.op = "submit" /\ r.pc = "pay"
  /\ \E coin \in BOOLEAN :
       Set(r, [r EXCEPT !.pc = "update",
                       !.payCall = IF failed THEN "failed" ELSE "answered",
                       !.paymentValidation =
                          IF failed THEN PaymentFallback
                          ELSE validatePayment(r.id, r.invoice.amount, coin)])
  /\ UNCHANGED <<documents, sim, snapshot, invoices, payments, audit_logs, cache, now, nreq>>

\* mutant of SubmitUpdate: the status is written only when both checks passed
SubmitUpdateGated(r) ==
  /\ r.op = "submit" /\ r.pc = "update"
  /\ invoices' = IF r.documentValidation.valid /\ r.paymentValidation.valid
                 THEN [invoices EXCEPT ![r.id] =
                         [@ EXCEPT !.status = "submitted", !.submitted_at = now]]
                 ELSE invoices
  /\ now' = now + 1
  /\ Set(r, [r EXCEPT !.pc = "del"])
  /\ UNCHANGED <<documents, sim, snapshot, payments, audit_logs, cache, nreq>>

\* UPDATE invoices SET status = 'submitted', submitted_at = NOW() WHERE id = $1
SubmitUpdate(r) ==
  /\ r.op = "submit" /\ r.pc = "update"
  /\ invoices' = [invoices EXCEPT ![r.id] =
                    [@ EXCEPT !.status = "submitted", !.submitted_at = now]]
  /\ now' = now + 1
  /\ Set(r, [r EXCEPT !.pc = "del"])
  /\ UNCHANGED <<documents, sim, snapshot, payments, audit_logs, cache, nreq>>

\* mutant of SubmitDel: the handler goes on without deleting the cache key
SubmitDelSkipped(r) ==
  /\ r.op = "submit" /\ r.pc = "del"
  /\ Set(r, [r EXCEPT !.pc = "audit"])
  /\ UNCHANGED <<documents, sim, snapshot, invoices, payments, audit_logs, cache, now, nreq>>

SubmitDel(r) ==
  /\ r.op = "submit" /\ r.pc = "del"
  /\ cache' = FALSE
  /\ Set(r, [r EXCEPT !.pc = "audit"])
  /\ UNCHANGED <<documents, sim, snapshot, invoices, payments, audit_logs, now, nreq>>

SubmitResp(r) ==
  [NoResp EXCEPT !.code = 200, !.kind = "submit", !.success = TRUE,
                 !.documentValidation = r.documentValidation,
                 !.paymentValidation = r.paymentValidation]

\* mutant of SubmitAudit: the response is sent without the audit insert
SubmitAuditSkipped(r) ==
  /\ r.op = "submit" /\ r.pc = "audit"
  /\ Respond(r, SubmitResp(r))
  /\ UNCHANGED <<documents, sim, snapshot, invoices, payments, audit_logs, cache, now, nreq>>

\* INSERT INTO audit_logs ...; res.json({ success: true, ... })
SubmitAudit(r) ==
  /\ r.op = "submit" /\ r.pc = "audit"
  /\ audit_logs' = Append(audit_logs,
       AuditEntry("invoice", r.id, "submitted",
                  [documentValidation |-> r.documentValidation,
                   paymentValidation |-> r.paymentValidation]))
  /\ Respond(r, SubmitResp(r))
  /\ UNCHANGED <<documents, sim, snapshot, invoices, payments, cache, now, nreq>>

\* --------------------------------------------- POST /api/payments/process
ProcessSelect(id) ==
  /\ CanStart
  /\ nreq' = nreq + 1
  /\ IF Exists(id)
     THEN Start([IdleReq EXCEPT !.op = "process", !.pc = "call", !.id = id,
                                !.invoice = invoices[id]])
     ELSE Reject([IdleReq EXCEPT !.op = "process", !.id = id], ErrorResp(404))
  /\ UNCHANGED <<documents, sim, snapshot, invoices, payments, audit_logs, cache, now>>

\* the axios call throws before the payment service has done anything
ProcessUnreachable(r) ==
  /\ r.op = "process" /\ r.pc = "call"
  /\ Respond(r, ErrorResp(500))
  /\ UNCHANGED <<documents, sim, snapshot, invoices, payments, audit_logs, cache, now, nreq>>

\* PaymentController.processPayment: status and confirmation of the new row
StatusOf(success) == IF success THEN "completed" ELSE "failed"

\* mutant of ConfirmationOf: the code is stored whatever the outcome
ConfirmationAlways(success) == "CONF"

ConfirmationOf(success) == IF success THEN "CONF" ELSE "null"

\* mutant of PaySave: a retry rewrites the invoice's earlier payment rows
PaySaveUpsert(r, success) ==
  /\ r.op = "process" /\ r.pc = "call"
  /\ payments' = Append(
       [k \in 1..Len(payments) |->
          IF payments[k].invoice_id = r.id
          THEN [payments[k] EXCEPT !.status = StatusOf(success),
                                   !.confirmation_number = ConfirmationOf(success)]
          ELSE payments[k]],
       [id |-> Len(payments) + 1, payment_number |-> "PAY", invoice_id |-> r.id,
        amount |-> r.invoice.amount, payment_method |-> "ACH",
        status |-> StatusOf(success),
        confirmation_number |-> ConfirmationOf(success)])
  /\ Set(r, [r EXCEPT !.pc = "svc_audit",
                      !.payResp = [success |-> success, status |-> StatusOf(success),
                                   payment_id |-> Len(payments) + 1,
                                   confirmation_number |-> ConfirmationOf(success)]])
  /\ UNCHANGED <<documents, sim, snapshot, invoices, audit_logs, cache, now, nreq>>

\* PaymentController.processPayment up to paymentRepository.save(payment)
PaySave(r, success) ==
  /\ r.op = "process" /\ r.pc = "call"
  /\ payments' = Append(payments,
       [id |-> Len(payments) + 1, payment_number |-> "PAY", invoice_id |-> r.id,
        amount |-> r.invoice.amount, payment_method |-> "ACH",
        status |-> StatusOf(success),
        confirmation_number |-> ConfirmationOf(success)])
  /\ Set(r, [r EXCEPT !.pc = "svc_audit",
                      !.payResp = [success |-> success, status |-> StatusOf(success),
                                   payment_id |-> Len(payments) + 1,
                                   confirmation_number |-> ConfirmationOf(success)]])
  /\ UNCHANGED <<documents, sim, snapshot, invoices, audit_logs, cache, now, nreq>>

\* paymentRepository.logAudit(...) and the ResponseEntity.ok(response); the
\* gateway either receives it or its 30 s timeout has expired meanwhile
PayLogAudit(r, delivered) ==
  /\ r.op = "process" /\ r.pc = "svc_audit"
  /\ audit_logs' = Append(audit_logs,
       AuditEntry("payment", r.payResp.payment_id, "processed",
                  [status |-> r.payResp.status, confirmation |-> "CONF"]))
  /\ IF delivered
     THEN Set(r, [r EXCEPT !.pc = "update"])
     ELSE Respond(r, ErrorResp(500))
  /\ UNCHANGED <<documents, sim, snapshot, invoices, payments, cache, now, nreq>>

\* UPDATE invoices SET status = 'approved', approved_at = NOW() WHERE id = $1
ProcessUpdate(r) ==
  /\ r.op = "process" /\ r.pc = "update"
  /\ invoices' = [invoices EXCEPT ![r.id] =
                    [@ EXCEPT !.status = "approved", !.approved_at = now]]
  /\ now' = now + 1
  /\ Set(r, [r EXCEPT !.pc = "del"])
  /\ UNCHANGED <<documents, sim, snapshot, payments, audit_logs, cache, nreq>>

\* redisClient.del('dashboard_metrics'); res.json(response.data)
ProcessDel(r) ==
  /\ r.op = "process" /\ r.pc = "del"
  /\ cache' = FALSE
  /\ Respond(r, [NoResp EXCEPT !.code = 200, !.kind = "payment",
                               !.success = r.payResp.success])
  /\ UNCHANGED <<documents, sim, snapshot, invoices, payments, audit_logs, now, nreq>>

\* ------------------------------------------- POST /api/simulator/cleanup
\* req.body.maxAgeHours: absent, or a number
MaxAgeInputs == {<<>>, <<1>>}

DefaultMaxAgeHours == 24

\* parseInt(req.body.maxAgeHours) || 24
parseMaxAge(body) == IF body = <<>> \/ body[1] = 0 THEN DefaultMaxAgeHours ELSE body[1]

MsPerHour == 3600000

\* created_at < NOW() - INTERVAL '${maxAgeHours} hours'
OlderThan(at, hours) == at < now - hours * MsPerHour

\* LIKE 'SIM-%'
IsSim(name) == name = "SIM"

\* payment_number LIKE 'SIM-%' AND created_at < ...: the age is compared only
\* for rows whose number matches, and processPayment numbers every row PAY-...,
\* so payment rows carry no created_at here
StalePayment(p, hours) == IsSim(p.payment_number) /\ OlderThan(p.created_at, hours)

StaleDocument(d, hours) == IsSim(d.filename) /\ OlderThan(d.uploaded_at, hours)

StaleInvoice(row, hours) ==
  /\ row.status \notin {"none", "deleted"}
  /\ IsSim(row.invoice_number[1])
  /\ OlderThan(row.created_at, hours)

\* DELETE FROM payments WHERE payment_number LIKE 'SIM-%' AND created_at < ...
CleanupPayments(body) ==
  /\ CanStart
  /\ nreq' = nreq + 1
  /\ payments' = SelectSeq(payments, LAMBDA p : ~StalePayment(p, parseMaxAge(body)))
  /\ Start([IdleReq EXCEPT !.op = "cleanup", !.pc = "documents",
                           !.maxAgeHours = parseMaxAge(body),
                           !.results.payments = Len(payments) - Len(payments')])
  /\ UNCHANGED <<documents, sim, snapshot, invoices, audit_logs, cache, now>>

\* DELETE FROM documents WHERE filename LIKE 'SIM-%' AND uploaded_at < ...
CleanupDocuments(r) ==
  /\ r.op = "cleanup" /\ r.pc = "documents"
  /\ documents' = SelectSeq(documents, LAMBDA d : ~StaleDocument(d, r.maxAgeHours))
  /\ Set(r, [r EXCEPT !.pc = "invoices",
                      !.results.documents = Len(documents) - Len(documents')])
  /\ UNCHANGED <<sim, snapshot, invoices, payments, audit_logs, cache, now, nreq>>

\* mutant of CleanupInvoices: every old invoice is deleted, whatever its number
CleanupInvoicesAnyPrefix(r) ==
  /\ r.op = "cleanup" /\ r.pc = "invoices"
  /\ invoices' = [i \in InvoiceIds |->
                    IF /\ invoices[i].status \notin {"none", "deleted"}
                       /\ OlderThan(invoices[i].created_at, r.maxAgeHours)
                    THEN [NoInvoice EXCEPT !.status = "deleted"]
                    ELSE invoices[i]]
  /\ Set(r, [r EXCEPT !.pc = "del",
                      !.results.invoices =
                         Cardinality({i \in InvoiceIds : invoices'[i] # invoices[i]})])
  /\ UNCHANGED <<documents, sim, snapshot, payments, audit_logs, cache, now, nreq>>

\* DELETE FROM invoices WHERE invoice_number LIKE 'SIM-%' AND created_at < ...
CleanupInvoices(r) ==
  /\ r.op = "cleanup" /\ r.pc = "invoices"
  /\ invoices' = [i \in InvoiceIds |->
                    IF StaleInvoice(invoices[i], r.maxAgeHours)
                    THEN [NoInvoice EXCEPT !.status = "deleted"]
                    ELSE invoices[i]]
  /\ Set(r, [r EXCEPT !.pc = "del",
                      !.results.invoices =
                         Cardinality({i \in InvoiceIds : invoices'[i] # invoices[i]})])
  /\ UNCHANGED <<documents, sim, snapshot, payments, audit_logs, cache, now, nreq>>

\* mutant of CleanupDel: the cleanup also clears the audit log
CleanupDelPurging(r) ==
  /\ r.op = "cleanup" /\ r.pc = "del"
  /\ cache' = FALSE
  /\ audit_logs' = <<>>
  /\ Respond(r, [NoResp EXCEPT !.code = 200, !.kind = "cleanup", !.success = TRUE])
  /\ UNCHANGED <<documents, sim, snapshot, invoices, payments, now, nreq>>

\* redisClient.del('dashboard_metrics'); res.json({ success: true, ... })
CleanupDel(r) ==
  /\ r.op = "cleanup" /\ r.pc = "del"
  /\ cache' = FALSE
  /\ Respond(r, [NoResp EXCEPT !.code = 200, !.kind = "cleanup", !.success = TRUE])
  /\ UNCHANGED <<documents, sim, snapshot, invoices, payments, audit_logs, now, nreq>>

Next ==
  \/ Dashboard
  \/ Expire
  \/ \E a \in Amounts : CreateInsert(a, "office")
  \/ \E r \in Running : CreateDel(r)
  \/ \E r \in Running : CreateAudit(r)
  \/ \E id \in InvoiceIds : SubmitSelect(id)
  \/ \E r \in Running, f \in BOOLEAN, a \in DocumentAnswers : SubmitDoc(r, f, a)
  \/ \E r \in Running, f \in BOOLEAN : SubmitPay(r, f)
  \/ \E r \in Running : SubmitUpdate(r)
  \/ \E r \in Running : SubmitDel(r)
  \/ \E r \in Running : SubmitAudit(r)
  \/ \E id \in InvoiceIds : ProcessSelect(id)
  \/ \E r \in Running, ok \in BOOLEAN : PaySave(r, ok)
  \/ \E r \in Running : ProcessUnreachable(r)
  \/ \E r \in Running, d \in BOOLEAN : PayLogAudit(r, d)
  \/ \E r \in Running : ProcessUpdate(r)
  \/ \E r \in Running : ProcessDel(r)
  \/ \E body \in MaxAgeInputs : CleanupPayments(body)
  \/ \E r \in Running : CleanupDocuments(r)
  \/ \E r \in Running : CleanupInvoices(r)
  \/ \E r \in Running : CleanupDel(r)

Spec == Init /\ [][Next]_vars

\* ------------------------------------------------------------- scheduling
\* the steps of a handler in flight that need no answer from an authority:
\* the store and the cache answer every query, the { timeout: 10000 } of the
\* two validation calls and the { timeout: 30000 } of the process call expire
\* when no answer has come, and the payment service, once it has saved the
\* row, goes on to logAudit
Progress(r) ==
  \/ CreateDel(r) \/ CreateAudit(r)
  \/ \E a \in DocumentAnswers : SubmitDoc(r, TRUE, a)
  \/ SubmitPay(r, TRUE)
  \/ SubmitUpdate(r) \/ SubmitDel(r) \/ SubmitAudit(r)
  \/ ProcessUnreachable(r)
  \/ \E d \in BOOLEAN : PayLogAudit(r, d)
  \/ ProcessUpdate(r) \/ ProcessDel(r)

\* requests accepted in a run of the lifecycle handlers
LiveRequests == 1

\* the three lifecycle handlers (create, submit, payment processing), with
\* at most LiveRequests requests accepted
NextLive ==
  \/ nreq < LiveRequests /\ \E a \in Amounts : CreateInsert(a, "office")
  \/ \E r \in Running : CreateDel(r)
  \/ \E r \in Running : CreateAudit(r)
  \/ nreq < LiveRequests /\ \E id \in InvoiceIds : SubmitSelect(id)
  \/ \E r \in Running, f \in BOOLEAN, a \in DocumentAnswers : SubmitDoc(r, f, a)
  \/ \E r \in Running, f \in BOOLEAN : SubmitPay(r, f)
  \/ \E r \in Running : SubmitUpdate(r)
  \/ \E r \in Running : SubmitDel(r)
  \/ \E r \in Running : SubmitAudit(r)
  \/ nreq < LiveRequests /\ \E id \in InvoiceIds : ProcessSelect(id)
  \/ \E r \in Running, ok \in BOOLEAN : PaySave(r, ok)
  \/ \E r \in Running : ProcessUnreachable(r)
  \/ \E r \in Running, d \in BOOLEAN : PayLogAudit(r, d)
  \/ \E r \in Running : ProcessUpdate(r)
  \/ \E r \in Running : ProcessDel(r)

\* the lifecycle handlers on an event loop that runs every handler whose
\* awaited call has settled; no authority is obliged to answer
SpecLive == Init /\ [][NextLive]_vars /\ WF_vars(\E r \in Running : Progress(r))

\* ------------------------------------------------ invoice numbering
\* POST /api/invoices at arbitrary times of the clock: the clock starts at one
\* of ClockStarts and, between requests, jumps by one of Delays
MaxClock == 2100000

ClockStarts == {1, 999999}

Delays == {999999, 1000000}

InitNumbers ==
  /\ invoices = [i \in InvoiceIds |-> NoInvoice]
  /\ audit_logs = <<>>
  /\ now \in ClockStarts
  /\ payments = <<>>
  /\ cache = FALSE
  /\ reqs = EmptyBag
  /\ nreq = 0
  /\ last = IdleReq
  /\ documents = <<>>
  /\ sim = NoSim
  /\ snapshot = NoSnapshot

\* time passes
Advance(d) ==
  /\ now + d <= MaxClock
  /\ now' = now + d
  /\ last' = IdleReq
  /\ UNCHANGED <<documents, sim, snapshot, invoices, payments, audit_logs, cache, reqs, nreq>>

NextNumbers ==
  \/ \E d \in Delays : Advance(d)
  \/ \E a \in Amounts : CreateInsert(a, "office")
  \/ \E r \in Running : CreateDel(r)
  \/ \E r \in Running : CreateAudit(r)

SpecNumbers == InitNumbers /\ [][NextNumbers]_vars

\* ------------------------------------------------------ simulator data
\* The store over hours of simulator traffic: invoices created through the
\* form (description SIM-...), documents uploaded (SIM-test-document-...),
\* and POST /api/simulator/cleanup.
MsPerMinute == 60000

\* config.cleanupAgeInvoicesMinutes, config.cleanupAgeDocumentsMinutes
cleanupAgeInvoicesMinutes == 60
cleanupAgeDocumentsMinutes == 30

\* the store's clock runs up to this many minutes
MaxMinutes == 1510

\* minutes that pass between two requests
PassSteps == {62, 1440}

\* req.file.originalname: a simulator test file, or a user's file
Filenames == {"SIM", "report"}

\* minutes pass while no handler is in flight (a handler is over within the
\* minute)
Pass(minutes) ==
  /\ reqs = EmptyBag
  /\ now + minutes * MsPerMinute <= MaxMinutes * MsPerMinute
  /\ now' = now + minutes * MsPerMinute
  /\ last' = IdleReq
  /\ UNCHANGED <<documents, sim, snapshot, invoices, payments, audit_logs, cache, reqs, nreq>>

\* POST /api/documents/upload: the file is forwarded to the document service,
\* which stores a documents row under the forwarded filename
Upload(filename) ==
  /\ CanStart
  /\ nreq' = nreq + 1
  /\ documents' = Append(documents, [filename |-> filename, uploaded_at |-> now])
  /\ Reject([IdleReq EXCEPT !.op = "upload"], [NoResp EXCEPT !.code = 200, !.kind = "document"])
  /\ UNCHANGED <<sim, snapshot, invoices, payments, audit_logs, cache, now>>

NextCleanup ==
  \/ \E m \in PassSteps : Pass(m)
  \/ \E f \in Filenames : Upload(f)
  \/ \E a \in Amounts, d \in Descriptions : CreateInsert(a, d)
  \/ \E r \in Running : CreateDel(r)
  \/ \E r \in Running : CreateAudit(r)
  \/ \E body \in MaxAgeInputs : CleanupPayments(body)
  \/ \E r \in Running : CleanupDocuments(r)
  \/ \E r \in Running : CleanupInvoices(r)
  \/ \E r \in Running : CleanupDel(r)

SpecCleanup == Init /\ [][NextCleanup]_vars

\* ------------------------------------------------------------ simulator
\* runSimulation: the control flow of the simulator process. The requests its
\* page sends are handled by the gateway's handlers above; here only what
\* decides how many cycles run and how the process ends.

\* values of MAX_CYCLES (0: run until stopped)
MaxCyclesConfig == 2

\* cycles after which a run with MAX_CYCLES = 0 is no longer followed
MaxCycleCount == 3

\* values of INVOICE_FREQUENCY, UPLOAD_FREQUENCY and CLEANUP_FREQUENCY
Frequencies == {1, 2}

\* chromium.launch, newContext, newPage; cycleCount = 0
InitSim ==
  /\ \E n \in 0..MaxCyclesConfig, fi \in Frequencies, fu \in Frequencies,
        fc \in Frequencies, ei \in BOOLEAN, eu \in BOOLEAN :
       sim = [NoSim EXCEPT !.phase = "launched", !.maxCycles = n,
                           !.enableInvoices = ei, !.invoiceFrequency = fi,
                           !.enableUploads = eu, !.uploadFrequency = fu,
                           !.cleanupFrequency = fc, !.browser = "open"]
  /\ invoices = [i \in InvoiceIds |-> NoInvoice]
  /\ audit_logs = <<>>
  /\ now = 1
  /\ payments = <<>>
  /\ cache = FALSE
  /\ reqs = EmptyBag
  /\ nreq = 0
  /\ last = IdleReq
  /\ documents = <<>>
  /\ snapshot = NoSnapshot

SimStep(s) ==
  /\ sim' = s
  /\ UNCHANGED <<invoices, payments, audit_logs, cache, now, reqs, nreq, last,
                 documents, snapshot>>

\* the initial page.goto(config.baseUrl) and ensureSimVendorsExist: when the
\* page load throws, the catch block logs and rethrows
SimStartup(ok) ==
  /\ sim.phase = "launched"
  /\ SimStep([sim EXCEPT !.phase = IF ok THEN "initial_cleanup" ELSE "error"])

\* the initial cleanupSimulatorRecords and getSimulatorStats (both catch
\* their own errors)
SimInitialCleanup ==
  /\ sim.phase = "initial_cleanup"
  /\ SimStep([sim EXCEPT !.phase = "loop"])

\* while (config.maxCycles === 0 || cycleCount < config.maxCycles)
LoopGuardOffByOne == sim.maxCycles = 0 \/ sim.cycleCount <= sim.maxCycles

LoopGuard == sim.maxCycles = 0 \/ sim.cycleCount < sim.maxCycles

\* log.error in a catch block: one more step of a cycle that logged a failure
Logged(failed) == IF failed THEN sim.errors + 1 ELSE sim.errors

\* cycleCount++ and the shuffled navigation actions, each in its try/catch:
\* an action that throws is logged and the next one runs
SimCycle(failed) ==
  /\ sim.phase = "loop"
  /\ LoopGuard
  /\ sim.cycleCount < MaxCycleCount
  /\ SimStep([sim EXCEPT !.phase = "invoice", !.cycleCount = @ + 1,
                         !.errors = Logged(failed)])

InvoiceDue == sim.enableInvoices /\ sim.cycleCount % sim.invoiceFrequency = 0

\* mutant of SimInvoice: the cycles are counted from 0
SimInvoiceZeroBased(failed) ==
  /\ sim.phase = "invoice"
  /\ failed => InvoiceDue
  /\ SimStep([sim EXCEPT !.phase = "upload",
                         !.invoices = IF sim.enableInvoices
                                         /\ (sim.cycleCount - 1) % sim.invoiceFrequency = 0
                                      THEN @ + 1 ELSE @,
                         !.errors = Logged(failed)])

\* if (config.enableInvoices && cycleCount % config.invoiceFrequency === 0)
\* try { create, submit, approve } catch: a workflow that throws is logged
SimInvoice(failed) ==
  /\ sim.phase = "invoice"
  /\ failed => InvoiceDue
  /\ SimStep([sim EXCEPT !.phase = "upload",
                         !.invoices = IF InvoiceDue THEN @ + 1 ELSE @,
                         !.errors = Logged(failed)])

UploadDue == sim.enableUploads /\ sim.cycleCount % sim.uploadFrequency = 0

\* mutant of SimUpload: an upload that throws is not caught
SimUploadUncaught(failed) ==
  /\ sim.phase = "upload"
  /\ failed => UploadDue
  /\ SimStep([sim EXCEPT !.phase = IF failed THEN "error" ELSE "cleanup",
                         !.uploads = IF UploadDue THEN @ + 1 ELSE @,
                         !.errors = Logged(failed)])

\* if (config.enableUploads && cycleCount % config.uploadFrequency === 0)
\* try { uploadDocument } catch: an upload that throws is logged
SimUpload(failed) ==
  /\ sim.phase = "upload"
  /\ failed => UploadDue
  /\ SimStep([sim EXCEPT !.phase = "cleanup",
                         !.uploads = IF UploadDue THEN @ + 1 ELSE @,
                         !.errors = Logged(failed)])

CleanupDue == sim.cycleCount % sim.cleanupFrequency = 0

\* if (cycleCount % config.cleanupFrequency === 0) try { cleanup, stats }
\* catch: cleanupSimulatorRecords logs its own failure and returns null
SimCleanup(failed) ==
  /\ sim.phase = "cleanup"
  /\ failed => CleanupDue
  /\ SimStep([sim EXCEPT !.phase = "delay",
                         !.cleanups = IF CleanupDue THEN @ + 1 ELSE @,
                         !.errors = Logged(failed)])

\* await delay(config.cycleDelay)
SimDelay ==
  /\ sim.phase = "delay"
  /\ SimStep([sim EXCEPT !.phase = "loop"])

\* the loop condition is false: the final cleanupSimulatorRecords
SimFinalCleanup ==
  /\ sim.phase = "loop"
  /\ ~LoopGuard
  /\ SimStep([sim EXCEPT !.phase = "closing", !.finalCleanup = TRUE])

\* finally { await browser.close() }; after a rethrown error the entry
\* point's catch calls process.exit(1)
SimClose ==
  /\ sim.phase \in {"closing", "error"}
  /\ SimStep([sim EXCEPT !.phase = "ended", !.browser = "closed",
                         !.exit = IF sim.phase = "error" THEN 1 ELSE 0])

NextSim ==
  \/ \E ok \in BOOLEAN : SimStartup(ok)
  \/ SimInitialCleanup
  \/ \E failed \in BOOLEAN : SimCycle(failed)
  \/ \E failed \in BOOLEAN : SimInvoice(failed)
  \/ \E failed \in BOOLEAN : SimUpload(failed)
  \/ \E failed \in BOOLEAN : SimCleanup(failed)
  \/ SimDelay
  \/ SimFinalCleanup
  \/ SimClose

\* the simulator is one sequential process whose awaits all settle (timers,
\* page actions with timeouts), so it always takes its next step
SpecSim == InitSim /\ [][NextSim]_vars /\ WF_vars(NextSim)

\* ------------------------------------------------------- dashboard cache
\* GET /api/dashboard await by await, on a clock that counts seconds: the
\* key dashboard_metrics holds the snapshot of the last miss until a
\* redisClient.del or its expiry removes it.

\* redisClient.setEx(cacheKey, 30, ...)
TTL == 30

\* the clock runs up to this many seconds
MaxSeconds == 35

\* seconds that pass between two steps
TickSteps == {5, 27}

\* redis answers no GET with a key whose expiry has been reached
Tick(seconds) ==
  /\ now + seconds <= MaxSeconds
  /\ now' = now + seconds
  /\ cache' = (cache /\ now + seconds < snapshot.expires)
  /\ last' = IdleReq
  /\ UNCHANGED <<documents, sim, snapshot, invoices, payments, audit_logs, reqs, nreq>>

\* const cached = await redisClient.get(cacheKey); a hit answers with the
\* stored snapshot
DashGet ==
  /\ CanStart
  /\ nreq' = nreq + 1
  /\ IF cache
     THEN Reject([IdleReq EXCEPT !.op = "dashboard", !.dashboard = snapshot.generatedAt],
                 [NoResp EXCEPT !.code = 200, !.kind = "cached"])
     ELSE Start([IdleReq EXCEPT !.op = "dashboard", !.pc = "aggregate"])
  /\ UNCHANGED <<documents, sim, snapshot, invoices, payments, audit_logs, cache, now>>

\* await Promise.all([...four queries...]); generatedAt: new Date()
DashAggregate(r) ==
  /\ r.op = "dashboard" /\ r.pc = "aggregate"
  /\ Set(r, [r EXCEPT !.pc = "setEx", !.dashboard = now])
  /\ UNCHANGED <<documents, sim, snapshot, invoices, payments, audit_logs, cache, now, nreq>>

\* mutant of DashSetEx: the key is stored with twice the expiry
DashSetExDouble(r) ==
  /\ r.op = "dashboard" /\ r.pc = "setEx"
  /\ cache' = TRUE
  /\ snapshot' = [generatedAt |-> r.dashboard, expires |-> now + TTL + TTL]
  /\ Respond(r, [NoResp EXCEPT !.code = 200, !.kind = "computed"])
  /\ UNCHANGED <<documents, sim, invoices, payments, audit_logs, now, nreq>>

\* await redisClient.setEx(cacheKey, 30, JSON.stringify(dashboard)); res.json
DashSetEx(r) ==
  /\ r.op = "dashboard" /\ r.pc = "setEx"
  /\ cache' = TRUE
  /\ snapshot' = [generatedAt |-> r.dashboard, expires |-> now + TTL]
  /\ Respond(r, [NoResp EXCEPT !.code = 200, !.kind = "computed"])
  /\ UNCHANGED <<documents, sim, invoices, payments, audit_logs, now, nreq>>

\* the redisClient.del('dashboard_metrics') of a create, submit or payment
\* request reaches the cache
MutationDel ==
  /\ cache' = FALSE
  /\ last' = IdleReq
  /\ UNCHANGED <<documents, sim, snapshot, invoices, payments, audit_logs, now, reqs, nreq>>

InitCache ==
  /\ invoices = [i \in InvoiceIds |-> NoInvoice]
  /\ audit_logs = <<>>
  /\ now = 0
  /\ payments = <<>>
  /\ cache = FALSE
  /\ reqs = EmptyBag
  /\ nreq = 0
  /\ last = IdleReq
  /\ documents = <<>>
  /\ sim = NoSim
  /\ snapshot = NoSnapshot

NextCache ==
  \/ \E s \in TickSteps : Tick(s)
  \/ DashGet
  \/ \E r \in Running : DashAggregate(r)
  \/ \E r \in Running : DashSetEx(r)
  \/ MutationDel

SpecCache == InitCache /\ [][NextCache]_vars


\* --------------------------------------------------- payment validation
\* the Payment Authority's validate call, exercised through the submit handler
\* on an invoice that earlier process requests have already settled: each
\* request saved one payment row, logged it and the gateway wrote approved
MaxHistory == 2
ValidateAmounts == {0, 1500, 600000, 1000001}

Histories == UNION {[1..n -> BOOLEAN] : n \in 0..MaxHistory}

SettledRow(k, amount, success) ==
  [id |-> k, payment_number |-> "PAY", invoice_id |-> 1, amount |-> amount,
   payment_method |-> "ACH", status |-> StatusOf(success),
   confirmation_number |-> ConfirmationOf(success)]

SettledAudit(k, success) ==
  AuditEntry("payment", k, "processed",
             [status |-> StatusOf(success), confirmation |-> "CONF"])

\* the store after the requests of history h, one after the other, on invoice 1
AfterPayments(amount, h) ==
  /\ invoices = [i \in InvoiceIds |->
       IF i # 1 THEN NoInvoice
       ELSE IF h = <<>> THEN SeededInvoice(amount)
       ELSE [SeededInvoice(amount) EXCEPT !.status = "approved",
                                          !.approved_at = Len(h) + 1]]
  /\ payments = [k \in 1..Len(h) |-> SettledRow(k, amount, h[k])]
  /\ audit_logs = <<AuditEntry("invoice", 1, "created",
                               [invoice_number |-> invoiceNumber(1)])>>
                  \o [k \in 1..Len(h) |-> SettledAudit(k, h[k])]
  /\ now = Len(h) + 2
  /\ cache = FALSE
  /\ reqs = EmptyBag
  /\ documents = <<>>
  /\ sim = NoSim
  /\ snapshot = NoSnapshot

InitValidate ==
  /\ \E amount \in ValidateAmounts, h \in Histories : AfterPayments(amount, h)
  /\ nreq = 0
  /\ last = IdleReq

NextValidate ==
  \/ \E id \in InvoiceIds : SubmitSelect(id)
  \/ \E r \in Running, f \in BOOLEAN, a \in DocumentAnswers : SubmitDoc(r, f, a)
  \/ \E r \in Running, f \in BOOLEAN : SubmitPay(r, f)
  \/ \E r \in Running : SubmitUpdate(r)
  \/ \E r \in Running : SubmitDel(r)
  \/ \E r \in Running : SubmitAudit(r)

SpecValidate == InitValidate /\ [][NextValidate]_vars

\* ---------------------------------------------------- cache coherence
\* the dashboard read in its three steps (cache get, aggregate, cache write)
\* interleaved with the handlers that write the store and delete the key; the
\* store's clock counts its writes, so the generatedAt of a snapshot tells
\* which writes the aggregate has seen
NextCoherence ==
  \/ DashGet
  \/ \E r \in Running : DashAggregate(r)
  \/ \E r \in Running : DashSetEx(r)
  \/ \E a \in Amounts : CreateInsert(a, "office")
  \/ \E r \in Running : CreateDel(r)
  \/ \E r \in Running : CreateAudit(r)
  \/ \E id \in InvoiceIds : SubmitSelect(id)
  \/ \E r \in Running, f \in BOOLEAN, a \in DocumentAnswers : SubmitDoc(r, f, a)
  \/ \E r \in Running, f \in BOOLEAN : SubmitPay(r, f)
  \/ \E r \in Running : SubmitUpdate(r)
  \/ \E r \in Running : SubmitDel(r)
  \/ \E r \in Running : SubmitAudit(r)

SpecCoherence == Init /\ [][NextCoherence]_vars

\* ------------------------------------------------------- cleanup sweeps
\* cleanup requests over a store that holds an invoice, the payments of
\* earlier process requests and uploaded documents, with dashboard reads
\* filling the cache in between
\* the invoice is unpaid or one process request has settled it
InitSweep ==
  /\ \E amount \in Amounts, h \in {<<>>, <<TRUE>>, <<FALSE>>} :
       AfterPayments(amount, h)
  /\ nreq = 0
  /\ last = IdleReq

NextSweep ==
  \/ \E m \in PassSteps : Pass(m)
  \/ \E f \in Filenames : Upload(f)
  \/ Dashboard
  \/ \E body \in MaxAgeInputs : CleanupPayments(body)
  \/ \E r \in Running : CleanupDocuments(r)
  \/ \E r \in Running : CleanupInvoices(r)
  \/ \E r \in Running : CleanupDel(r)

SpecSweep == InitSweep /\ [][NextSweep]_vars

\* ------------------------------------------------------------ store faults
\* an awaited pool.query or redisClient.del rejects: control passes to the
\* handler's catch block, which answers 500; the statements that were already
\* awaited stay committed (no BEGIN / ROLLBACK surrounds them)

\* the INSERT INTO invoices rejects
CreateInsertFails ==
  /\ CanStart
  /\ nreq' = nreq + 1
  /\ Reject([IdleReq EXCEPT !.op = "create"], ErrorResp(500))
  /\ UNCHANGED <<documents, sim, snapshot, invoices, payments, audit_logs, cache, now>>

\* redisClient.del or the audit INSERT of POST /api/invoices rejects
CreateFails(r) ==
  /\ r.op = "create" /\ r.pc \in {"del", "audit"}
  /\ Respond(r, ErrorResp(500))
  /\ UNCHANGED <<documents, sim, snapshot, invoices, payments, audit_logs, cache, now, nreq>>

\* the SELECT of the submit or of the process handler rejects
SelectFails(op, id) ==
  /\ CanStart
  /\ nreq' = nreq + 1
  /\ Reject([IdleReq EXCEPT !.op = op, !.id = id], ErrorResp(500))
  /\ UNCHANGED <<documents, sim, snapshot, invoices, payments, audit_logs, cache, now>>

\* the UPDATE, redisClient.del or the audit INSERT of the submit handler rejects
SubmitFails(r) ==
  /\ r.op = "submit" /\ r.pc \in {"update", "del", "audit"}
  /\ Respond(r, ErrorResp(500))
  /\ UNCHANGED <<documents, sim, snapshot, invoices, payments, audit_logs, cache, now, nreq>>

\* mutant of PayLogAuditFails: the exception of logAudit is swallowed and the
\* payment service answers as if the entry had been written
PayLogAuditSwallowed(r) ==
  /\ r.op = "process" /\ r.pc = "svc_audit"
  /\ Set(r, [r EXCEPT !.pc = "update"])
  /\ UNCHANGED <<documents, sim, snapshot, invoices, payments, audit_logs, cache, now, nreq>>

\* paymentRepository.logAudit throws after the row was saved: the payment
\* service answers 500, axios.post rejects and the gateway answers 500
PayLogAuditFails(r) ==
  /\ r.op = "process" /\ r.pc = "svc_audit"
  /\ Respond(r, ErrorResp(500))
  /\ UNCHANGED <<documents, sim, snapshot, invoices, payments, audit_logs, cache, now, nreq>>

\* the UPDATE or redisClient.del of the process handler rejects
ProcessFails(r) ==
  /\ r.op = "process" /\ r.pc \in {"update", "del"}
  /\ Respond(r, ErrorResp(500))
  /\ UNCHANGED <<documents, sim, snapshot, invoices, payments, audit_logs, cache, now, nreq>>

\* the first DELETE of the cleanup handler rejects
CleanupPaymentsFails ==
  /\ CanStart
  /\ nreq' = nreq + 1
  /\ Reject([IdleReq EXCEPT !.op = "cleanup"], ErrorResp(500))
  /\ UNCHANGED <<documents, sim, snapshot, invoices, payments, audit_logs, cache, now>>

\* a later DELETE or the redisClient.del of the cleanup handler rejects
CleanupFails(r) ==
  /\ r.op = "cleanup" /\ r.pc \in {"documents", "invoices", "del"}
  /\ Respond(r, ErrorResp(500))
  /\ UNCHANGED <<documents, sim, snapshot, invoices, payments, audit_logs, cache, now, nreq>>

Faults ==
  \/ CreateInsertFails
  \/ \E r \in Running : CreateFails(r)
  \/ \E op \in {"submit", "process"}, id \in InvoiceIds : SelectFails(op, id)
  \/ \E r \in Running : SubmitFails(r)
  \/ \E r \in Running : PayLogAuditFails(r)
  \/ \E r \in Running : ProcessFails(r)
  \/ CleanupPaymentsFails
  \/ \E r \in Running : CleanupFails(r)

NextFaults == Next \/ Faults

\* the program with a store and a cache that may reject any call
SpecFaults == Init /\ [][NextFaults]_vars

\* ================================================================ claims
Statuses == {"draft", "submitted", "approved"}

Rank(status) ==
  CASE status = "draft" -> 1
    [] status = "submitted" -> 2
    [] status = "approved" -> 3
    [] OTHER -> 0

\* a step of the handler with locals r, after its first query
StepOf(r) == r \in Running /\ CopiesIn(r, reqs') < CopiesIn(r, reqs)

\* the locals a handler has after the step
Became(r2) == CopiesIn(r2, reqs') > CopiesIn(r2, reqs)

\* the step with which the handler with locals r answers (last' is its answer)
Answers(r) == StepOf(r) /\ BagCardinality(reqs') < BagCardinality(reqs)

SeenStatus(r) == r.invoice.status

Client4xx(code) == code >= 400 /\ code <= 499

CompletedOf(id) ==
  {k \in 1..Len(payments) :
     payments[k].invoice_id = id /\ payments[k].status = "completed"}

\* C1: the status of an existing invoice is always draft, submitted or
\* approved, and no step moves it backwards along draft -> submitted -> approved.
C1_StatusNeverRegresses ==
  [][\A i \in InvoiceIds :
       invoices[i].status # "none" =>
         /\ invoices'[i].status \in Statuses
         /\ Rank(invoices'[i].status) >= Rank(invoices[i].status)]_vars

\* C2: every invoice has at most one payment row with status completed.
C2_AtMostOneCompleted ==
  \A i \in InvoiceIds : Cardinality(CompletedOf(i)) <= 1

\* C3: a payment request whose settlement failed leaves the invoice status as
\* it was and answers 200 with success false; only a completed payment lets
\* the request write approved.
C3_ApproveOnlyOnCompleted ==
  [][\A r \in Running :
       (r.op = "process" /\ StepOf(r) /\ ~r.payResp.success) =>
         /\ invoices'[r.id].status = invoices[r.id].status
         /\ (r.pc = "del" =>
               last'.resp.code = 200 /\ ~last'.resp.success)]_vars

\* C4: a submit request that read its invoice in draft writes submitted
\* whatever the two validations gave, and answers 200 with success true; when
\* it answers the invoice is no longer in draft.
C4_SubmitDraftAlwaysSubmits ==
  [][\A r \in Running :
       (r.op = "submit" /\ SeenStatus(r) = "draft" /\ StepOf(r)) =>
         /\ (\A r2 \in Running' : Became(r2) => r2.pc \in {"pay", "update", "del", "audit"})
         /\ (r.pc = "update" => invoices'[r.id].status = "submitted")
         /\ (Answers(r) =>
               /\ r.pc = "audit"
               /\ last'.op = "submit" /\ last'.id = r.id
               /\ last'.resp.code = 200
               /\ last'.resp.success
               /\ invoices'[r.id].status \in {"submitted", "approved"})]_vars

\* a draft invoice was submitted with both authorities unavailable and the
\* request answered success
C4_Witness ==
  /\ last.op = "submit"
  /\ last.invoice.status = "draft"
  /\ last.docCall = "failed" /\ last.payCall = "failed"
  /\ last.resp.code = 200 /\ last.resp.success
  /\ invoices[last.id].status = "submitted"

\* C5: a submit request that read its invoice in submitted or approved changes
\* neither the invoice row nor the audit log nor the cache, and answers 4xx.
C5_SubmitNonDraftRejected ==
  [][\A r \in Running :
       (r.op = "submit" /\ SeenStatus(r) \in {"submitted", "approved"}
          /\ StepOf(r)) =>
         /\ invoices'[r.id] = invoices[r.id]
         /\ audit_logs' = audit_logs
         /\ cache' = cache
         /\ (Answers(r) => Client4xx(last'.resp.code))]_vars

\* C6: a payment request that read its invoice in draft or approved writes no
\* payment row, leaves the invoice row alone and answers 4xx.
C6_ApproveNeedsSubmitted ==
  [][\A r \in Running :
       (r.op = "process" /\ SeenStatus(r) \notin {"submitted", "pending"}
          /\ StepOf(r)) =>
         /\ payments' = payments
         /\ invoices'[r.id] = invoices[r.id]
         /\ (Answers(r) => Client4xx(last'.resp.code))]_vars

\* a completed payment of the request's invoice that another request wrote
Duplicate(r) ==
  \E k \in CompletedOf(r.id) : payments[k].id # r.payResp.payment_id

\* C7: a payment request for an invoice that already has a completed payment
\* adds no payment row, leaves an approved invoice approved and answers 4xx.
C7_DuplicatePaymentRejected ==
  [][\A r \in Running :
       (r.op = "process" /\ Duplicate(r) /\ StepOf(r)) =>
         /\ Len(PaymentsOf(r.id))' = Len(PaymentsOf(r.id))
         /\ (invoices[r.id].status = "approved" =>
               invoices'[r.id].status = "approved")
         /\ (Answers(r) => Client4xx(last'.resp.code))]_vars

Last(seq) == seq[Len(seq)]

Tagged(e, type, id, action) ==
  e.entity_type = type /\ e.entity_id = id /\ e.action = action

AppendsOne(type, id, action) ==
  /\ Len(audit_logs') = Len(audit_logs) + 1
  /\ SubSeq(audit_logs', 1, Len(audit_logs)) = audit_logs
  /\ Tagged(Last(audit_logs'), type, id, action)

\* an audit entry of entity type invoice carrying the invoice's id and the
\* tag of the transition
Audited(id, tags) ==
  \E k \in 1..Len(audit_logs) :
    /\ audit_logs[k].entity_type = "invoice"
    /\ audit_logs[k].entity_id = id
    /\ audit_logs[k].action \in tags

\* C8 as claimed: once a request has made its transition and answered, the
\* audit log holds an entry whose entity is the invoice that changed and whose
\* action tag names the transition (created, submitted, or a tag of the
\* approval).
C8_AuditNamesInvoice ==
  last.resp.code \in {200, 201} =>
    CASE last.op = "create" -> Audited(last.id, {"created"})
      [] last.op = "submit" -> Audited(last.id, {"submitted"})
      [] last.op = "process" -> Audited(last.id, {"approved", "processed", "paid"})
      [] OTHER -> TRUE

\* C8 amended: every request that makes a transition appends exactly one
\* audit entry, at one step, and no other step of a request touches the audit
\* log: create appends (invoice, invoice id, created) as it answers 201, submit
\* appends (invoice, invoice id, submitted) as it answers 200, and a payment
\* request appends (payment, payment row id, processed) before it writes
\* approved.
C8_OneAuditPerTransition ==
  [][/\ \A r \in Running :
          StepOf(r) =>
            CASE r.op = "create" /\ r.pc = "audit" ->
                   /\ AppendsOne("invoice", r.id, "created")
                   /\ Answers(r) /\ last'.resp.code = 201
              [] r.op = "submit" /\ r.pc = "audit" ->
                   /\ AppendsOne("invoice", r.id, "submitted")
                   /\ Answers(r) /\ last'.resp.code = 200
              [] r.op = "process" /\ r.pc = "svc_audit" ->
                   AppendsOne("payment", r.payResp.payment_id, "processed")
              [] OTHER ->
                   /\ audit_logs' = audit_logs
                   /\ \/ Answers(r) => last'.resp.code \notin {200, 201}
                      \/ r.op \in {"process", "cleanup"} /\ r.pc = "del"
     /\ (\A r \in Running : ~StepOf(r)) => audit_logs' = audit_logs
     /\ \A r \in Running :
          (StepOf(r) /\ r.op = "process"
             /\ \E r2 \in Running' : Became(r2) /\ r2.pc = "update") =>
            r.pc = "svc_audit"]_vars

\* all three transitions of one invoice have been made and audited
C8_Witness ==
  \E i \in InvoiceIds :
    /\ invoices[i].status = "approved" /\ invoices[i].submitted_at # NoTime
    /\ \E k \in 1..Len(audit_logs) : Tagged(audit_logs[k], "invoice", i, "created")
    /\ \E k \in 1..Len(audit_logs) : Tagged(audit_logs[k], "invoice", i, "submitted")
    /\ \E k \in 1..Len(audit_logs) : audit_logs[k].action = "processed"

\* the audit entry of the submission answered last
SubmitEntry ==
  AuditEntry("invoice", last.id, "submitted",
             [documentValidation |-> last.resp.documentValidation,
              paymentValidation |-> last.resp.paymentValidation])

Answered == last.op = "submit" /\ last.resp.code = 200

\* C9 as claimed: a validation call that failed is not reported as valid, in
\* the response or in the audit entry of the submission.
C9_UnavailableNotValid ==
  Answered =>
    /\ (last.docCall = "failed" => ~last.resp.documentValidation.valid)
    /\ (last.payCall = "failed" => ~last.resp.paymentValidation.valid)

\* C9 amended: a validation call that failed never ends the submission with
\* an error; it is recorded as valid = true together with a warning naming
\* the unavailable service, and the response and the audit entry of the
\* submission both carry that record.
C9_UnavailableIsValidWithWarning ==
  /\ \A q \in Running \cup {last} :
       /\ (q.op = "submit" /\ q.docCall = "failed") =>
            q.documentValidation =
              [valid |-> TRUE, warning |-> "Document service unavailable"]
       /\ (q.op = "submit" /\ q.payCall = "failed") =>
            q.paymentValidation =
              [valid |-> TRUE, warning |-> "Payment service unavailable"]
  /\ (last.op = "submit" /\ "failed" \in {last.docCall, last.payCall}) =>
       last.resp.code = 200 /\ last.resp.success
  /\ Answered =>
       /\ last.resp.documentValidation = last.documentValidation
       /\ last.resp.paymentValidation = last.paymentValidation
       /\ \E k \in 1..Len(audit_logs) : audit_logs[k] = SubmitEntry

\* a submission answered after the document call failed and the payment
\* call was answered
C9_Witness ==
  /\ Answered
  /\ last.docCall = "failed" /\ last.payCall = "answered"
  /\ last.resp.documentValidation.warning = "Document service unavailable"

\* C10: every payment row has status completed or failed and carries a
\* confirmation code exactly when it is completed; a settlement, failed or
\* not, has exactly one row, whose status is failed when the settlement failed.
C10_PaymentRowShape ==
  /\ \A k \in 1..Len(payments) :
       /\ payments[k].status \in {"completed", "failed"}
       /\ (payments[k].confirmation_number # "null") <=> (payments[k].status = "completed")
  /\ \A q \in Running \cup {last} :
       (q.op = "process" /\ q.payResp.status # "none") =>
         /\ Cardinality({k \in 1..Len(payments) :
                           payments[k].id = q.payResp.payment_id}) = 1
         /\ \A k \in 1..Len(payments) :
              payments[k].id = q.payResp.payment_id =>
                /\ payments[k].invoice_id = q.id
                /\ payments[k].status = (IF q.payResp.success
                                         THEN "completed" ELSE "failed")

\* a failed settlement and a completed one have both been persisted
C10_Witness ==
  /\ \E k \in 1..Len(payments) :
       payments[k].status = "failed" /\ payments[k].confirmation_number = "null"
  /\ \E k \in 1..Len(payments) :
       payments[k].status = "completed" /\ payments[k].confirmation_number = "CONF"

ServerError(code) == code >= 500 /\ code <= 599

HasEntry(type, id, action) ==
  \E k \in 1..Len(audit_logs) : Tagged(audit_logs[k], type, id, action)

\* C11: when a create or submit request, the only request the server has
\* accepted, fails on the store, it answers 5xx and none of its writes is
\* visible: a failed create leaves no invoice row and no created entry, a
\* failed submit leaves the invoice row as it read it and no submitted entry.
C11_FailureLeavesNoWrite ==
  [][\A r \in Running :
       (Answers(r) /\ ServerError(last'.resp.code) /\ nreq = 1) =>
         /\ (r.op = "create" =>
               /\ invoices'[r.id].status = "none"
               /\ ~HasEntry("invoice", r.id, "created")')
         /\ (r.op = "submit" =>
               /\ invoices'[r.id] = r.invoice
               /\ ~HasEntry("invoice", r.id, "submitted")')]_vars

\* C12: when a payment request answers 5xx, no completed payment row of that
\* attempt exists, and, when it is the only request the server has accepted,
\* the invoice row is as the request read it.
C12_FailedApproveLeavesNothing ==
  [][\A r \in Running :
       (Answers(r) /\ r.op = "process" /\ ServerError(last'.resp.code)) =>
         /\ \A k \in 1..Len(payments) :
              payments[k].id = r.payResp.payment_id =>
                payments[k].status # "completed"
         /\ (nreq = 1 => invoices'[r.id] = r.invoice)]_vars

\* C13: a submit and a payment request that read the same status of one
\* invoice do not both make their transition: the status write of a submit
\* request whose invoice was approved since it read it, and the status write
\* of a payment request whose invoice was submitted since it read it, leave
\* the invoice row alone.
C13_WriteOnlyFromObservedStatus ==
  [][\A r \in Running :
       (StepOf(r) /\ r.pc = "update" /\ invoices[r.id].status # SeenStatus(r)
          /\ \/ r.op = "submit" /\ invoices[r.id].approved_at # r.invoice.approved_at
             \/ r.op = "process" /\ invoices[r.id].submitted_at # r.invoice.submitted_at) =>
         invoices'[r.id] = invoices[r.id]]_vars

\* C14: every create, submit and payment request deletes the cache key at its
\* own step after its write and before its response: the deleting step leaves
\* the key absent, a 2xx answer is sent only by a request that has made that
\* step, and the key becomes present again only by a dashboard read, never by
\* a step of a mutation.
C14_InvalidateBeforeResponse ==
  [][/\ \A r \in Running :
          StepOf(r) =>
            /\ (r.pc = "del" => cache' = FALSE)
            /\ (cache' = TRUE => cache = TRUE)
            /\ (Answers(r) /\ last'.resp.code \in {200, 201} =>
                  \/ r.op \in {"process", "cleanup"} /\ r.pc = "del"
                  \/ r.op \in {"create", "submit"} /\ r.pc = "audit")
            /\ \A r2 \in Running' :
                 (Became(r2) /\ r2.pc = "audit") => (r.pc = "del" /\ cache' = FALSE)
     /\ (cache = FALSE /\ cache' = TRUE) =>
          /\ reqs' = reqs
          /\ UNCHANGED <<invoices, payments, audit_logs>>]_vars

\* a submission of the seeded invoice, the second request the server accepted,
\* has made its deleting step and answered 200 with the cache key absent
C14_Witness ==
  /\ last.op = "submit" /\ last.resp.code = 200
  /\ last.invoice.created_at = 1
  /\ nreq = 2
  /\ cache = FALSE

\* C15: the step that inserts an invoice row inserts it with a positive amount
\* and in status draft (a create request with amount <= 0 inserts nothing).
C15_CreateRejectsBadAmount ==
  [][\A i \in InvoiceIds :
       (invoices[i].status = "none" /\ invoices'[i].status # "none") =>
         /\ invoices'[i].amount > 0
         /\ invoices'[i].status = "draft"]_vars

\* C16: an invoice becomes approved only from status submitted, and whenever
\* its approved_at is written its submitted_at is set.
C16_NoStageSkipped ==
  [][\A i \in InvoiceIds :
       /\ (invoices'[i].status = "approved" /\ invoices[i].status # "approved") =>
            invoices[i].status = "submitted"
       /\ invoices'[i].approved_at # NoTime =>
            invoices'[i].submitted_at # NoTime]_vars


\* C17: a submit or payment request for an id without an invoice row is
\* answered 404 at its first step, which calls no authority and changes no
\* invoice, payment, audit entry, cache key or running handler; no handler
\* ever runs for an id without a row.
C17_MissingInvoice404 ==
  /\ [](\A r \in Running :
          r.op \in {"submit", "process"} => r.invoice.status # "none")
  /\ [][/\ last'.resp.code = 404 =>
             /\ last'.op \in {"submit", "process"}
             /\ ~Exists(last'.id)
             /\ last'.docCall = "none" /\ last'.payCall = "none"
             /\ last'.payResp = NoPayResp
             /\ UNCHANGED <<invoices, payments, audit_logs, cache, reqs>>
        /\ (nreq' = nreq + 1 /\ reqs' = reqs /\ cache' = cache) =>
             last'.resp.code = 404]_vars

\* a payment request for an id without an invoice row was answered 404
C17_Witness ==
  /\ last.op = "process" /\ last.resp.code = 404
  /\ last.id \in InvoiceIds /\ invoices[last.id].status = "none"

\* C18: any two invoice rows carry different invoice numbers.
C18_InvoiceNumbersDiffer ==
  \A i, j \in InvoiceIds :
    (i # j /\ invoices[i].status # "none" /\ invoices[j].status # "none") =>
      invoices[i].invoice_number # invoices[j].invoice_number

Ordered(row) ==
  /\ row.submitted_at # NoTime => row.created_at <= row.submitted_at
  /\ (row.submitted_at # NoTime /\ row.approved_at # NoTime) =>
       row.submitted_at <= row.approved_at

\* C19: once set, an invoice's submitted_at and approved_at are never written
\* again, and created_at <= submitted_at <= approved_at whenever they are set.
C19_TimestampsSetOnce ==
  [][\A i \in InvoiceIds :
       /\ invoices[i].submitted_at # NoTime =>
            invoices'[i].submitted_at = invoices[i].submitted_at
       /\ invoices[i].approved_at # NoTime =>
            invoices'[i].approved_at = invoices[i].approved_at
       /\ Ordered(invoices'[i])]_vars

\* C20: an invoice's status is written to approved at most once (no step
\* writes approved to an invoice that was approved before), and an approved
\* invoice has exactly one completed payment.
C20_ApprovedExactlyOnce ==
  [][\A i \in InvoiceIds :
       /\ invoices'[i].approved_at # invoices[i].approved_at =>
            invoices[i].approved_at = NoTime /\ invoices[i].status # "approved"
       /\ invoices'[i].status = "approved" =>
            Cardinality(CompletedOf(i))' = 1]_vars

\* C21: the audit log only grows by appending: every step of create, submit,
\* payment processing and simulator cleanup leaves the entries already written
\* in place and unchanged.
C21_AuditAppendOnly ==
  [][/\ Len(audit_logs') >= Len(audit_logs)
     /\ SubSeq(audit_logs', 1, Len(audit_logs)) = audit_logs]_vars

\* a simulator cleanup has answered success while the audit log held the
\* entries of a created and submitted invoice
C21_Witness ==
  /\ last.op = "cleanup" /\ last.resp.code = 200
  /\ Audited(1, {"created"}) /\ Audited(1, {"submitted"})

\* C25: a request answers success only with its audit entry written: create
\* and submit append theirs in the step that answers, a payment request's
\* (payment, payment id, processed) entry is in the log when the gateway
\* answers 200; when the audit write rejects, the answer is not a success.
C25_AuditBeforeResponse ==
  [][\A r \in Running :
       (Answers(r) /\ last'.resp.code \in {200, 201}) =>
         CASE r.op = "create" -> AppendsOne("invoice", r.id, "created")
           [] r.op = "submit" -> AppendsOne("invoice", r.id, "submitted")
           [] r.op = "process" ->
                \E k \in 1..Len(audit_logs) :
                  Tagged(audit_logs[k], "payment", r.payResp.payment_id, "processed")
           [] OTHER -> TRUE]_vars

\* a payment request was answered 200 and the entry of its payment row is in
\* the audit log
C25_Witness ==
  /\ last.op = "process" /\ last.resp.code = 200
  /\ \E k \in 1..Len(audit_logs) :
       Tagged(audit_logs[k], "payment", last.payResp.payment_id, "processed")

\* C26 as claimed: the two checks of a submission are issued together, so
\* while the handler waits for the Document Authority the request to the
\* Payment Authority has already been made.
C26_IssuedConcurrently ==
  \A r \in Running :
    (r.op = "submit" /\ r.pc = "doc") => r.payCall # "none"

\* C26 amended: the two checks of a submission run one after the other: while
\* the handler waits for the Document Authority no request to the Payment
\* Authority has been made, the payment check is issued once the document check
\* has an outcome, and the status write happens only after both have one.
C26_ChecksInSequence ==
  \A r \in Running :
    r.op = "submit" =>
      /\ r.pc = "doc" => (r.docCall = "none" /\ r.payCall = "none")
      /\ r.pc = "pay" => (r.docCall # "none" /\ r.payCall = "none")
      /\ r.pc \in {"update", "del", "audit"} =>
            (r.docCall # "none" /\ r.payCall # "none")

\* a submission has the Document Authority's answer and is waiting for the
\* Payment Authority
C26_Witness ==
  \E r \in Running :
    r.op = "submit" /\ r.pc = "pay" /\ r.docCall = "answered" /\ r.payCall = "none"

\* C27: a handler passes each call to an authority once: a submission leaves
\* the document call for the payment call and the payment call for the status
\* update whatever the outcome, a payment request leaves its process call for
\* good, and the recorded outcome of a call is never replaced.
C27_NoRetries ==
  [][\A r \in Running : \A r2 \in Running' :
       (StepOf(r) /\ Became(r2)) =>
         /\ (r.op = "submit" /\ r.pc = "doc") => (r2.pc = "pay" /\ r2.docCall # "none")
         /\ (r.op = "submit" /\ r.pc = "pay") => (r2.pc = "update" /\ r2.payCall # "none")
         /\ (r.op = "submit" /\ r.pc # "doc") => r2.docCall = r.docCall
         /\ (r.op = "submit" /\ r.pc # "pay") => r2.payCall = r.payCall
         /\ (r.op = "process" /\ r.pc = "call") => r2.pc = "svc_audit"
         /\ (r.op = "process" /\ r.pc # "call") =>
               (r2.pc # "call" /\ r2.payResp = r.payResp)]_vars

\* a submission whose two calls both failed has gone on to the status update
C27_Witness ==
  \E r \in Running :
    r.op = "submit" /\ r.pc = "update" /\ r.docCall = "failed" /\ r.payCall = "failed"

\* C28: the payment validation of a submission, whatever it answers and
\* whether or not it is reached, leaves the invoices, the payments and the audit
\* log as they were.
C28_ValidateHasNoEffect ==
  [][\A r \in Running :
       (r.op = "submit" /\ r.pc = "pay" /\ StepOf(r)) =>
         UNCHANGED <<invoices, payments, audit_logs>>]_vars

\* a validation has refused an invoice (amount out of range) and the invoice
\* is still the draft it was, with no payment row
C28_Witness ==
  \E r \in Running :
    /\ r.op = "submit" /\ r.pc = "update" /\ r.payCall = "answered"
    /\ ~r.paymentValidation.valid
    /\ invoices[r.id].status = "draft" /\ payments = <<>>

\* C30: deleting the dashboard key never fails and always leaves it absent:
\* when the key was absent the cache is unchanged and the handler goes on as
\* it does when the key was present, and the deletion changes nothing but the
\* key.
C30_InvalidateIdempotent ==
  [][\A r \in Running :
       (r.pc = "del" /\ StepOf(r)) =>
         /\ cache' = FALSE
         /\ (~cache => cache' = cache)
         /\ UNCHANGED <<invoices, payments, audit_logs, documents, snapshot>>
         /\ IF r.op \in {"create", "submit"}
            THEN \E r2 \in Running' : Became(r2) /\ r2 = [r EXCEPT !.pc = "audit"]
            ELSE Answers(r) /\ last'.resp.code = 200]_vars

\* the first request of a run, a create, has deleted the key that no
\* dashboard read had stored and goes on to its audit entry
C30_Witness ==
  /\ nreq = 1 /\ ~cache
  /\ \E r \in Running : r.op = "create" /\ r.pc = "audit"

\* C22: every request in flight is eventually answered, also when no
\* authority ever answers: the deadlines of the validation calls and of the
\* process call let the handler go on, so whenever handlers are in flight a
\* state follows in which all of them have returned, and a create, a submit or
\* a payment request in flight is followed by the answer to one.
C22_EveryRequestAnswered ==
  /\ (reqs # EmptyBag) ~> (reqs = EmptyBag)
  /\ \A op \in {"create", "submit", "process"} :
       (\E r \in Running : r.op = op) ~> (last.op = op /\ last.pc = "done")

\* a submission whose two validation calls both ran into their deadline has
\* been answered
C22_Witness ==
  /\ last.op = "submit" /\ last.pc = "done"
  /\ last.docCall = "failed" /\ last.payCall = "failed"

\* an invoice the simulator created that is older than its cleanup age
OldSimInvoice(row) ==
  /\ row.status \notin {"none", "deleted"}
  /\ row.description = "SIM"
  /\ row.created_at < now - cleanupAgeInvoicesMinutes * MsPerMinute

\* a simulator document that is older than its cleanup age
OldSimDocument(d) ==
  /\ IsSim(d.filename)
  /\ d.uploaded_at < now - cleanupAgeDocumentsMinutes * MsPerMinute

\* C23: when a cleanup call sent as the simulator sends it (no maxAgeHours in
\* the body) has answered success, the store holds no invoice created by the
\* simulator that is older than 60 minutes and no simulator document older than
\* 30 minutes.
C23_CleanupRemovesOldSimData ==
  (last.op = "cleanup" /\ last.resp.code = 200
     /\ last.maxAgeHours = DefaultMaxAgeHours) =>
    /\ \A i \in InvoiceIds : ~OldSimInvoice(invoices[i])
    /\ \A k \in 1..Len(documents) : ~OldSimDocument(documents[k])

\* C24 as claimed: a simulator started with MAX_CYCLES = N > 0 that has ended
\* has run exactly N cycles and its final cleanup, and has closed the browser.
C24_ExactlyNCycles ==
  (sim.phase = "ended" /\ sim.maxCycles > 0) =>
    /\ sim.cycleCount = sim.maxCycles
    /\ sim.finalCleanup
    /\ sim.browser = "closed"

\* C24 amended: with MAX_CYCLES = N > 0 a simulator whose initial page load
\* and vendor setup succeed runs exactly N cycles, then its final cleanup,
\* closes the browser and ends with exit code 0; when the startup throws it
\* runs no cycle and no final cleanup, but still closes the browser, and ends
\* with exit code 1. Either way it ends. With MAX_CYCLES = 0 the loop is never
\* left: no final cleanup is made and the process ends only by a failed startup.
C24_CyclesThenCleanupThenClose ==
  /\ [](/\ sim.maxCycles > 0 => sim.cycleCount <= sim.maxCycles
        /\ sim.finalCleanup =>
              (sim.maxCycles > 0 /\ sim.cycleCount = sim.maxCycles)
        /\ sim.browser = "closed" <=> sim.phase = "ended"
        /\ sim.phase = "ended" =>
              \/ sim.exit = 0 /\ sim.finalCleanup
              \/ sim.exit = 1 /\ sim.cycleCount = 0 /\ ~sim.finalCleanup
        /\ sim.maxCycles = 0 =>
              (sim.phase \notin {"closing"} /\ (sim.phase = "ended" => sim.exit = 1)))
  /\ (sim.maxCycles > 0) ~> (sim.phase = "ended")
  /\ (sim.maxCycles > 0 /\ sim.phase = "loop") ~> (sim.phase = "ended" /\ sim.exit = 0)

\* a simulator started with MAX_CYCLES = 2 has run two cycles and the final
\* cleanup, closed the browser and ended
C24_Witness ==
  /\ sim.phase = "ended" /\ sim.exit = 0
  /\ sim.maxCycles = 2 /\ sim.cycleCount = 2
  /\ sim.finalCleanup /\ sim.browser = "closed"

\* C29 as claimed: whenever the key is present, the snapshot it holds was
\* computed no longer ago than the TTL.
C29_SnapshotNoOlderThanTTL ==
  cache => now - snapshot.generatedAt <= TTL

\* C29 amended: whenever the key is present it was stored less than the TTL
\* ago, with a snapshot computed before it was stored (so the snapshot's age
\* is below the TTL plus the time the miss took between computing and
\* storing); a hit answers with the stored snapshot and changes nothing, a
\* miss stores what it computed with expiry TTL from the moment of storing, and
\* the key is never present at or after its expiry.
C29_StoredNoLongerThanTTL ==
  /\ [](cache =>
          /\ now < snapshot.expires
          /\ now - (snapshot.expires - TTL) < TTL
          /\ snapshot.generatedAt <= snapshot.expires - TTL)
  /\ [][/\ (last'.op = "dashboard" /\ last'.resp.kind = "cached") =>
            /\ cache /\ last'.dashboard = snapshot.generatedAt
            /\ UNCHANGED <<cache, snapshot>>
        /\ \A r \in Running :
             (r.op = "dashboard" /\ r.pc = "setEx" /\ StepOf(r)) =>
               /\ cache'
               /\ snapshot' = [generatedAt |-> r.dashboard, expires |-> now + TTL]
        /\ \A r \in Running :
             (r.op = "dashboard" /\ r.pc = "aggregate" /\ StepOf(r)) =>
               UNCHANGED <<cache, snapshot>>]_vars

\* the key is present 27 seconds after it was stored, holding a snapshot
\* that was computed 32 seconds ago
C29_Witness ==
  /\ cache
  /\ now - snapshot.generatedAt > TTL
  /\ now < snapshot.expires

\* C31: a payment row is never rewritten once inserted: every step keeps each
\* existing row (its status, confirmation code, invoice reference and amount)
\* as it was and only appends rows, so a row's status and confirmation code
\* change at most once (in fact never) after insertion
C31_PaymentRowsImmutable ==
  [][/\ Len(payments') >= Len(payments)
     /\ \A k \in 1..Len(payments) : payments'[k] = payments[k]]_vars

\* a failed payment was followed by a second, completed payment of the same
\* invoice, and the first row still reads failed with no confirmation code
C31_Witness ==
  /\ Len(payments) = 2
  /\ payments[1].invoice_id = payments[2].invoice_id
  /\ payments[1].status = "failed" /\ payments[1].confirmation_number = "null"
  /\ payments[2].status = "completed"

\* the audit entries that record the processing of payment row k
ProcessedEntries(k) ==
  {n \in 1..Len(audit_logs) : Tagged(audit_logs[n], "payment", k, "processed")}

\* C36: each persisted payment whose request has passed its audit step has
\* exactly one audit entry (payment, its id, processed), and that entry records
\* the status and the confirmation code of the persisted row, so none for a
\* failed payment
C36_AuditMatchesRow ==
  \A k \in 1..Len(payments) :
    /\ (\A r \in Running : ~(r.pc = "svc_audit" /\ r.payResp.payment_id = k))
         => Cardinality(ProcessedEntries(k)) = 1
    /\ \A n \in ProcessedEntries(k) :
         /\ audit_logs[n].details.status = payments[k].status
         /\ audit_logs[n].details.confirmation = payments[k].confirmation_number

\* C35: an answered validate call returns valid = false exactly when the
\* amount is outside (0, 1000000] or some completed payment exists for the
\* invoice; the no_duplicate check fails whenever a completed payment exists,
\* whatever payments follow it; a budget_compliance warning does not make
\* valid false
C35_ValidUnlessRangeOrCompleted ==
  [][\A r \in Running :
       StepOf(r) /\ r.op = "submit" /\ r.pc = "pay" =>
         /\ noDuplicate(r.id) = (CompletedOf(r.id) = {})
         /\ \A r2 \in BagToSet(reqs') :
              Became(r2) /\ r2.payCall = "answered" =>
                r2.paymentValidation.valid =
                  (/\ r.invoice.amount > 0 /\ r.invoice.amount <= AmountLimit
                   /\ CompletedOf(r.id) = {})]_vars

\* the cycles whose invoice, upload and cleanup step have been passed
PassedInvoice == IF sim.phase = "invoice" THEN sim.cycleCount - 1 ELSE sim.cycleCount

PassedUpload ==
  IF sim.phase \in {"invoice", "upload"} THEN sim.cycleCount - 1 ELSE sim.cycleCount

PassedCleanup ==
  IF sim.phase \in {"invoice", "upload", "cleanup"}
  THEN sim.cycleCount - 1 ELSE sim.cycleCount

\* C33: counting cycles from 1, the invoice workflow has run once for every
\* passed cycle that is a multiple of INVOICE_FREQUENCY when invoices are
\* enabled and never otherwise, the upload once for every multiple of
\* UPLOAD_FREQUENCY when uploads are enabled and never otherwise, and the
\* cleanup once for every multiple of CLEANUP_FREQUENCY
C33_RunsOnMultiples ==
  /\ sim.invoices = Cardinality({k \in 1..PassedInvoice :
                        sim.enableInvoices /\ k % sim.invoiceFrequency = 0})
  /\ sim.uploads = Cardinality({k \in 1..PassedUpload :
                       sim.enableUploads /\ k % sim.uploadFrequency = 0})
  /\ sim.cleanups = Cardinality({k \in 1..PassedCleanup :
                        k % sim.cleanupFrequency = 0})

\* two cycles are over with invoices every second cycle, uploads every cycle
\* and cleanup every second cycle: one workflow, two uploads, one cleanup
C33_Witness ==
  /\ sim.phase = "delay" /\ sim.cycleCount = 2
  /\ sim.enableInvoices /\ sim.invoiceFrequency = 2 /\ sim.invoices = 1
  /\ sim.enableUploads /\ sim.uploadFrequency = 1 /\ sim.uploads = 2
  /\ sim.cleanupFrequency = 2 /\ sim.cleanups = 1

\* the step that follows each step of a cycle
AfterPhase(phase) ==
  CASE phase = "loop" -> "invoice"
    [] phase = "invoice" -> "upload"
    [] phase = "upload" -> "cleanup"
    [] phase = "cleanup" -> "delay"
    [] OTHER -> "none"

\* C37: a failure inside a cycle is logged and the simulator goes on with the
\* next step of the same cycle, the cycle counter never going back; only the
\* startup, before the first cycle, can end the run with an error; after a
\* logged failure a bounded run still completes all its cycles and ends with
\* exit code 0, and an unbounded one still starts its next cycle
C37_CycleFailureCaught ==
  /\ [][sim'.errors > sim.errors =>
          /\ sim'.errors = sim.errors + 1
          /\ sim'.phase = AfterPhase(sim.phase)
          /\ sim'.cycleCount >= sim.cycleCount]_vars
  /\ [](sim.phase = "error" => sim.errors = 0 /\ sim.cycleCount = 0)
  /\ (sim.errors > 0 /\ sim.maxCycles > 0) ~>
       (sim.phase = "ended" /\ sim.exit = 0 /\ sim.cycleCount = sim.maxCycles)
  /\ \A c \in 1..(MaxCycleCount - 1) :
       (sim.errors > 0 /\ sim.maxCycles = 0 /\ sim.cycleCount = c) ~>
         (sim.cycleCount = c + 1)

\* a two-cycle run in which an upload failed has ended normally after its
\* second cycle and its final cleanup
C37_Witness ==
  /\ sim.phase = "ended" /\ sim.exit = 0
  /\ sim.maxCycles = 2 /\ sim.cycleCount = 2
  /\ sim.errors = 1 /\ sim.uploads > 0 /\ sim.finalCleanup

\* the rows of a table that a step removed
Removed(old, new) == {k \in 1..Len(old) : \A n \in 1..Len(new) : new[n] # old[k]}

\* new holds the rows of old that were not removed, in their order
KeepsOthers(old, new) ==
  new = SelectSeq(old, LAMBDA x : \E n \in 1..Len(new) : new[n] = x)

\* C32: a cleanup request deletes only rows that carry the SIM- prefix and are
\* older than its age limit and leaves every other invoice, payment and
\* document as it was; it deletes payments with its first query, before the
\* documents and the invoices, and it answers only with the step that deletes
\* the dashboard key, after the invoices query
C32_CleanupOnlyOldSimRecords ==
  [][/\ \A r2 \in BagToSet(reqs') :
          (Became(r2) /\ r2.op = "cleanup" /\ r2.pc = "documents") =>
            /\ KeepsOthers(payments, payments')
            /\ \A k \in Removed(payments, payments') :
                 /\ IsSim(payments[k].payment_number)
                 /\ payments[k].created_at < now - r2.maxAgeHours * MsPerHour
            /\ UNCHANGED <<documents, invoices, cache>>
     /\ \A r \in Running :
          (StepOf(r) /\ r.op = "cleanup") =>
            /\ r.pc \in {"documents", "invoices", "del"}
            /\ r.pc = "documents" =>
                 /\ KeepsOthers(documents, documents')
                 /\ \A k \in Removed(documents, documents') :
                      /\ IsSim(documents[k].filename)
                      /\ documents[k].uploaded_at < now - r.maxAgeHours * MsPerHour
                 /\ UNCHANGED <<payments, invoices, cache>>
                 /\ \E r2 \in BagToSet(reqs') : Became(r2) /\ r2.pc = "invoices"
            /\ r.pc = "invoices" =>
                 /\ \A i \in InvoiceIds :
                      \/ invoices'[i] = invoices[i]
                      \/ /\ invoices'[i].status = "deleted"
                         /\ IsSim(invoices[i].invoice_number[1])
                         /\ invoices[i].created_at < now - r.maxAgeHours * MsPerHour
                 /\ UNCHANGED <<payments, documents, cache>>
                 /\ \E r2 \in BagToSet(reqs') : Became(r2) /\ r2.pc = "del"
            /\ r.pc = "del" =>
                 /\ UNCHANGED <<payments, documents, invoices>>
                 /\ cache' = FALSE
                 /\ Answers(r)
            /\ Answers(r) => r.pc = "del"]_vars

\* a cleanup has answered success after deleting one old SIM- document while
\* the invoice of the store and its payments are still there
C32_Witness ==
  /\ last.op = "cleanup" /\ last.resp.code = 200
  /\ last.results.documents = 1
  /\ documents = <<>>
  /\ Len(payments) > 0
  /\ \E i \in InvoiceIds : Exists(i)

\* C34: once a create or a submit has answered (its audit entry is written
\* right before the answer), the snapshot held under the dashboard key, which
\* is what a read served from the cache returns, was aggregated after that
\* request's store write
C34_CachedSnapshotSeesAnsweredWrites ==
  cache =>
    \A i \in InvoiceIds :
      /\ Audited(i, {"created"}) => invoices[i].created_at < snapshot.generatedAt
      /\ (Audited(i, {"submitted"}) /\ invoices[i].status = "submitted") =>
           invoices[i].submitted_at < snapshot.generatedAt

====
